---- MODULE Spec2Model ----
(***************************************************************************)
(* A model of lafikl/fluent (fluent.go): the request builder and the       *)
(* retry engine behind Send.  The request object is the record f; one      *)
(* Send is the steps of request.do: the first doReq, then the loop of      *)
(* backoff.Retry (operation, NextBackOff, Sleep).  The transport           *)
(* (http.Client.Do) and the backoff clock are the environment: each        *)
(* exchange draws its outcome, and NextBackOff may answer Stop.            *)
(***************************************************************************)
EXTENDS Integers, Sequences, FiniteSets, TLC

\* ---------------------------------------------------------------- bounds

\* largest value given to Retry()
MaxRetry == 3
\* number of Send calls made on the one request object
MaxSends == 2
\* sleeps of backoff.Retry within one Send before the policy answers Stop
MaxSleeps == MaxRetry + 1
\* entries the history of one Send keeps: every step of a Send that sleeps
\* MaxSleeps times
MaxLog == 2 * MaxSleeps + 2
\* the attempt index of the backoff policy is counted up to MaxIndex: every
\* sleep of a Send that sleeps MaxSleeps times
MaxIndex == MaxSleeps

\* ---------------------------------------------------------------- values

\* status codes the transport may answer with
Statuses == {200, 499, 500, 599, 600}

\* url values given to Url(): one the transport can reach, one url.Parse rejects
GoodUrl == "http://h"
BadUrl == ":"
Urls == {GoodUrl, BadUrl}

\* method values given to Method(): a valid token and one that is no token
BadMethod == "BAD METHOD"
Methods == {"POST", BadMethod}

\* error values; nil is NilErr.  A transport error carries the Send that
\* produced it, so that the errors of two Sends are two values (one Send
\* meets at most one).
NilErr == [type |-> "nil", send |-> 0]
JsonErr == [type |-> "json", send |-> 0]
NewRequestErr == [type |-> "newrequest", send |-> 0]
ServerError == [type |-> "Server Error", send |-> 0]
TransportErr(s) == [type |-> "transport", send |-> s]

\* responses; nil is NilRes.  A response carries the Send and the exchange
\* that produced it (in Go every exchange allocates its own *http.Response).
NilRes == [status |-> 0, send |-> 0, n |-> 0]
Response(st, s, n) == [status |-> st, send |-> s, n |-> n]

\* values given to Json(): a slice of ints, and a channel (json.Marshal
\* answers UnsupportedTypeError for it)
NilJson == [kind |-> "nil", ints |-> <<>>]
JsonInts(s) == [kind |-> "ints", ints |-> s]
JsonChan == [kind |-> "chan", ints |-> <<>>]
JsonVals == {JsonInts(<<1, 23>>), JsonChan}

\* values given to Body(): a reader over data, read up to pos
NilBody == [set |-> FALSE, data |-> <<>>, pos |-> 0]
Reader(d) == [set |-> TRUE, data |-> d, pos |-> 0]
Bodies == {Reader(<<"h", "i">>)}

\* the bytes a reader still holds
Remaining(b) == SubSeq(b.data, b.pos + 1, Len(b.data))

\* ---------------------------------------------------------------- helpers

\* the decimal digits of n >= 0, as characters
Digit(d) == CASE d = 0 -> "0" [] d = 1 -> "1" [] d = 2 -> "2" [] d = 3 -> "3"
              [] d = 4 -> "4" [] d = 5 -> "5" [] d = 6 -> "6" [] d = 7 -> "7"
              [] d = 8 -> "8" [] d = 9 -> "9"

RECURSIVE Itoa(_)
Itoa(n) == IF n < 10 THEN <<Digit(n)>> ELSE Itoa(n \div 10) \o <<Digit(n % 10)>>

RECURSIVE JoinInts(_)
JoinInts(s) == IF Len(s) = 0 THEN <<>>
               ELSE IF Len(s) = 1 THEN Itoa(s[1])
               ELSE Itoa(s[1]) \o <<",">> \o JoinInts(Tail(s))

\* json.Marshal(j): the bytes and the error
Marshal(j) == CASE j.kind = "nil" -> [bytes |-> <<"n", "u", "l", "l">>, err |-> NilErr]
                [] j.kind = "ints" -> [bytes |-> <<"[">> \o JoinInts(j.ints) \o <<"]">>,
                                       err |-> NilErr]
                [] j.kind = "chan" -> [bytes |-> <<>>, err |-> JsonErr]

\* http.Header.Set canonicalizes the key
CanonicalKey(k) == IF k = "Content-type" THEN "Content-Type" ELSE k

\* the transport message; nil is NilReq
NilReq == [method |-> "", url |-> "", body |-> <<>>, header |-> <<>>, set |-> FALSE]

\* http.NewRequest(method, url, body): "" means GET; a method that is no
\* token and a url that url.Parse rejects are errors
HttpNewRequest(method, url, body) ==
    IF method = BadMethod \/ url = BadUrl
    THEN [req |-> NilReq, err |-> NewRequestErr]
    ELSE [req |-> [method |-> IF method = "" THEN "GET" ELSE method,
                   url |-> url, body |-> body, header |-> <<>>, set |-> TRUE],
          err |-> NilErr]

\* mutant of newRequest: a request with a structured payload is always a POST
newRequest_JsonPosts(f) ==
    IF f.jsonIsSet
    THEN LET m == Marshal(f.json)
         IN  IF m.err # NilErr THEN [req |-> NilReq, err |-> m.err]
             ELSE HttpNewRequest("POST", f.url, m.bytes)
    ELSE IF f.body # NilBody
    THEN HttpNewRequest(f.method, f.url, Remaining(f.body))
    ELSE HttpNewRequest(f.method, f.url, <<>>)

\* mutant of newRequest: the raw body is looked at before the structured
\* payload
newRequest_BodyFirst(f) ==
    IF f.body # NilBody
    THEN HttpNewRequest(f.method, f.url, Remaining(f.body))
    ELSE IF f.jsonIsSet
    THEN LET m == Marshal(f.json)
         IN  IF m.err # NilErr THEN [req |-> NilReq, err |-> m.err]
             ELSE HttpNewRequest(f.method, f.url, m.bytes)
    ELSE HttpNewRequest(f.method, f.url, <<>>)

\* request.newRequest: the structured payload wins over the raw body
newRequest(f) ==
    IF f.jsonIsSet
    THEN LET m == Marshal(f.json)
         IN  IF m.err # NilErr THEN [req |-> NilReq, err |-> m.err]
             ELSE HttpNewRequest(f.method, f.url, m.bytes)
    ELSE IF f.body # NilBody
    THEN HttpNewRequest(f.method, f.url, Remaining(f.body))
    ELSE HttpNewRequest(f.method, f.url, <<>>)

\* the orders in which range may visit a header map, as far as they show: for
\* every canonical key, the key of the map that is visited last among those
\* that canonicalize to it (Go leaves the order of a map range unspecified)
RangeOrders(header) ==
    {w \in [{CanonicalKey(x) : x \in DOMAIN header} -> DOMAIN header] :
        \A k \in DOMAIN w : CanonicalKey(w[k]) = k}

\* the header loop of doReq: req.Header.Set(k, v) for every entry of
\* f.header, visited in the order w; a later Set replaces an earlier one
SetHeaders(req, header, w) ==
    [req EXCEPT !.header = [k \in DOMAIN w |-> header[w[k]]]]

\* what the client of one doReq call does: the outcome the transport draws
\* for the exchange, with the Send and the exchange it is
\*   kind "resp": a response with the status;  kind "err": a transport error
\*   read: whether the transport read the request body
Outcomes == {[kind |-> "resp", status |-> st, read |-> TRUE] : st \in Statuses}
            \cup {[kind |-> "err", status |-> 0, read |-> rd] : rd \in BOOLEAN}

\* a url without a scheme is never exchanged: the client answers an error
\* before writing anything
OutcomesFor(url) == IF url = GoodUrl THEN Outcomes
                    ELSE {[kind |-> "err", status |-> 0, read |-> FALSE]}

\* w: the order in which this call's range visits f.header
Client(o, s, n, w) == [o |-> o, send |-> s, n |-> n, w |-> w]

\* c.Do(req): the response and the error
Do(c, req) == IF c.o.kind = "err"
              THEN [res |-> NilRes, err |-> TransportErr(c.send)]
              ELSE [res |-> Response(c.o.status, c.send, c.n), err |-> NilErr]

\* the raw body after the transport read the request's body from it
Consume(f, c) == IF ~f.jsonIsSet /\ f.body # NilBody /\ c.o.read
                 THEN [f.body EXCEPT !.pos = Len(f.body.data)]
                 ELSE f.body

\* mutants of Retryable: the budget test lets 0 through; no budget test
Retryable_BudgetGE(res, retry) ==
    res # NilRes /\ res.status >= 500 /\ res.status <= 599 /\ retry >= 0

Retryable_NoBudget(res, retry) ==
    res # NilRes /\ res.status >= 500 /\ res.status <= 599

\* the test of doReq that makes a response a retry: a 5xx status and budget left
Retryable(res, retry) ==
    res # NilRes /\ res.status >= 500 /\ res.status <= 599 /\ retry > 0

\* doReq(f, c): the request after the call, the error returned, and
\* whether the transport was asked
doReq(f, c) ==
    LET nr == newRequest(f)
        f1 == [f EXCEPT !.req = nr.req]
    IN  IF nr.err # NilErr
        THEN [f |-> f1, err |-> nr.err, sent |-> FALSE]
        ELSE
        LET f2 == [f1 EXCEPT !.req = SetHeaders(nr.req, f.header, c.w)]
            d  == Do(c, f2.req)
            f3 == [f2 EXCEPT !.body = Consume(f, c)]
        IN  IF d.err # NilErr
            THEN [f |-> [f3 EXCEPT !.err = d.err], err |-> NilErr, sent |-> TRUE]
            ELSE IF Retryable(d.res, f.retry)
            THEN [f |-> [f3 EXCEPT !.retry = f.retry - 1], err |-> ServerError,
                  sent |-> TRUE]
            ELSE IF d.res # NilRes
            THEN [f |-> [f3 EXCEPT !.res = d.res], err |-> NilErr, sent |-> TRUE]
            ELSE [f |-> f3, err |-> NilErr, sent |-> TRUE]

\* ---------------------------------------------------------------- state

VARIABLES
    f,       \* the request object: the fields of struct request
    pc,      \* where the caller is: "ready" (configuring), "do" (Send called,
             \* before the first doReq), "op" (in backoff.Retry, before the
             \* operation), "next" (in backoff.Retry, before NextBackOff),
             \* "done" (Send returned)
    err,     \* the local err of backoff.Retry: what the last operation returned
    ret,     \* what the last Send returned: [res, err]
    sends,   \* history: the number of Send calls so far
    retry0,  \* history: f.retry when the current Send was called
    log,     \* history: the doReq calls and the sleeps of the current Send
    delay,   \* the local next of backoff.Retry: the delay NextBackOff
             \* answered last (0 before the first and outside Retry)
    g        \* the goroutines that run Send on the one request at the same
             \* time (SpecConc): each one's position and locals

vars == <<f, pc, err, ret, sends, retry0, log, delay, g>>

\* log entries
\*   kind "config": doReq returned newRequest's error, nothing was sent
\*   kind "resp" / "err": doReq asked the transport, which answered a
\*                        response with the status / a transport error
\*   kind "sleep": backoff.Retry slept
\*   n: the exchanges of this Send up to and including this entry
\*   before, after: f.retry before and after the entry
\*   failed: doReq returned an error
\*   req: the message handed to the transport (NilReq when none was)
Entry(kind, status, n, before, after, failed) ==
    [kind |-> kind, status |-> status, n |-> n, before |-> before,
     after |-> after, failed |-> failed, req |-> NilReq]

\* the history with one more entry; it keeps the first MaxLog entries
Record(l, e) == IF Len(l) < MaxLog THEN Append(l, e) ELSE l

IsExchange(e) == e.kind \in {"resp", "err"}

\* the number of exchanges in a log
Exchanges(l) == Cardinality({i \in 1..Len(l) : IsExchange(l[i])})
Sleeps(l) == Cardinality({i \in 1..Len(l) : l[i].kind = "sleep"})

\* the log entry of one doReq call with client c that turned g into r
DoReqEntry(h, c, r) ==
    [Entry(IF ~r.sent THEN "config" ELSE c.o.kind,
           IF r.sent THEN c.o.status ELSE 0,
           IF r.sent THEN c.n ELSE c.n - 1,
           h.retry, r.f.retry, r.err # NilErr)
       EXCEPT !.req = IF r.sent THEN r.f.req ELSE NilReq]

NoResult == [res |-> NilRes, err |-> NilErr]

\* no goroutine runs Send beside the caller
NoGoroutines == <<>>

\* backoff.NewExponentialBackOff(): the policy a new request starts with.
\* Durations are in units of 250 ms; Multiplier and RandomizationFactor are
\* in tenths.  The defaults are 500 ms, 0.5, 1.5, 60 s and 15 min.
\*   index: the sleeps completed since Reset (the attempt index)
DefaultBackOff == [InitialInterval |-> 2, RandomizationFactor |-> 5,
                   Multiplier |-> 15, MaxInterval |-> 240,
                   MaxElapsedTime |-> 3600, index |-> 0]

RECURSIVE Power(_, _)
Power(x, n) == IF n = 0 THEN 1 ELSE x * Power(x, n - 1)

Min(x, y) == IF x <= y THEN x ELSE y

\* mutant of Base: the interval grows without the cap
Base_NoCap(b) ==
    (b.InitialInterval * Power(b.Multiplier, b.index)) \div Power(10, b.index)

\* step 1 of the algorithm: initialInterval * multiplier^attempt_index,
\* capped at maxInterval
Base(b) ==
    Min((b.InitialInterval * Power(b.Multiplier, b.index)) \div Power(10, b.index),
        b.MaxInterval)

\* step 2: the spread of the randomization around a base delay
Delta(b, base) == (base * b.RandomizationFactor) \div 10

\* the delays NextBackOff may answer: any value within the spread
Delays(b) == (Base(b) - Delta(b, Base(b)))..(Base(b) + Delta(b, Base(b)))

\* b.Reset(): the attempt index starts at 0
ResetOf(b) == [b EXCEPT !.index = 0]

\* the policy after b.NextBackOff(): the attempt index grows by one
NextBackOffOf(b) == [b EXCEPT !.index = Min(b.index + 1, MaxIndex)]

\* New(): an empty header map, a new backoff policy, no error, everything
\* else the zero value
New == [header |-> <<>>, method |-> "", json |-> NilJson, jsonIsSet |-> FALSE,
        url |-> "", retry |-> 0, body |-> NilBody, res |-> NilRes,
        err |-> NilErr, req |-> NilReq, backoff |-> DefaultBackOff]

Init == /\ f = New
        /\ pc = "ready"
        /\ err = NilErr
        /\ ret = NoResult
        /\ sends = 0
        /\ retry0 = 0
        /\ log = <<>>
        /\ delay = 0
        /\ g = NoGoroutines

\* ---------------------------------------------------------------- setters

Idle == pc \in {"ready", "done"}

\* a setter call between Sends: h is the request after it.  The caller has
\* dropped what the last Send returned, and the history starts again.
Set(h) == /\ Idle
          /\ f' = h
          /\ pc' = "ready"
          /\ err' = NilErr
          /\ ret' = NoResult
          /\ retry0' = 0
          /\ log' = <<>>
          /\ delay' = 0
          /\ UNCHANGED <<sends, g>>

UrlOf(h, u) == [h EXCEPT !.url = u]
MethodOf(h, m) == [h EXCEPT !.method = m]
SetHeaderOf(h, k, v) ==
    [h EXCEPT !.header = [x \in DOMAIN h.header \cup {k} |->
                            IF x = k THEN v ELSE h.header[x]]]
JsonOf(h, j) ==
    SetHeaderOf([h EXCEPT !.json = j, !.jsonIsSet = TRUE],
                "Content-type", "application/json")
BodyOf(h, b) == [h EXCEPT !.body = b]
RetryOf(h, r) == [h EXCEPT !.retry = r]

Url == \E u \in Urls : Set(UrlOf(f, u))
Method == \E m \in Methods : Set(MethodOf(f, m))
Json == \E j \in JsonVals : Set(JsonOf(f, j))
Body == \E b \in Bodies : Set(BodyOf(f, b))
Retry == \E r \in -1..MaxRetry : Set(RetryOf(f, r))

\* ---------------------------------------------------------------- Send

\* mutants of doReturn: an exhausted 5xx is reported as an error; the stored
\* response is looked at before the stored error; the response is not
\* dropped when the stored error is returned
doReturn_5xxIsError(h, e) ==
    IF h.err # NilErr THEN [res |-> NilRes, err |-> h.err]
    ELSE IF h.res.status >= 500 /\ h.res.status <= 599
    THEN [res |-> NilRes, err |-> ServerError]
    ELSE [res |-> h.res, err |-> e]

doReturn_ResFirst(h, e) ==
    IF h.res # NilRes THEN [res |-> h.res, err |-> e]
    ELSE [res |-> NilRes, err |-> h.err]

doReturn_Both(h, e) ==
    [res |-> h.res, err |-> IF h.err # NilErr THEN h.err ELSE e]

\* the end of request.do, after the first doReq or backoff.Retry returned e
doReturn(h, e) == IF h.err # NilErr THEN [res |-> NilRes, err |-> h.err]
                  ELSE [res |-> h.res, err |-> e]

\* Send: newClient, then do is entered
Send == /\ Idle
        /\ sends < MaxSends
        /\ sends' = sends + 1
        /\ retry0' = f.retry
        /\ log' = <<>>
        /\ ret' = NoResult
        /\ err' = NilErr
        /\ pc' = "do"
        /\ delay' = 0
        /\ UNCHANGED <<f, g>>

\* one doReq call of the current Send with the outcome o: the request and
\* the log after it
Call(o, w) == LET c == Client(o, sends, Exchanges(log) + 1, w)
                  r == doReq(f, c)
              IN  [r |-> r, entry |-> DoReqEntry(f, c, r)]

\* do: the first doReq; an error enters backoff.Retry, which starts with
\* b.Reset(); nil returns
DoFirst == /\ pc = "do"
           /\ \E o \in OutcomesFor(f.url), w \in RangeOrders(f.header) :
                LET k == Call(o, w)
                IN  /\ log' = Record(log, k.entry)
                    /\ err' = k.r.err
                    /\ IF k.r.err # NilErr
                       THEN /\ f' = [k.r.f EXCEPT !.backoff = ResetOf(f.backoff)]
                            /\ pc' = "op"
                            /\ ret' = ret
                       ELSE /\ f' = k.r.f
                            /\ pc' = "done"
                            /\ ret' = doReturn(k.r.f, NilErr)
           /\ UNCHANGED <<sends, retry0, delay, g>>

\* backoff.Retry: the operation; nil ends the loop and do returns
Operation == /\ pc = "op"
             /\ \E o \in OutcomesFor(f.url), w \in RangeOrders(f.header) :
                  LET k == Call(o, w)
                  IN  /\ f' = k.r.f
                      /\ log' = Record(log, k.entry)
                      /\ err' = k.r.err
                      /\ IF k.r.err # NilErr
                         THEN pc' = "next" /\ ret' = ret /\ delay' = delay
                         ELSE /\ pc' = "done"
                              /\ ret' = doReturn(k.r.f, NilErr)
                              /\ delay' = 0
             /\ UNCHANGED <<sends, retry0, g>>

\* mutant of BackOffStop: do falls through to its last lines instead of
\* returning Retry's error at once
BackOffStop_FallThrough == /\ pc = "next"
                           /\ f.backoff.MaxElapsedTime # 0
                           /\ pc' = "done"
                           /\ ret' = doReturn(f, err)
                           /\ delay' = 0
                           /\ UNCHANGED <<f, err, sends, retry0, log, g>>

\* backoff.Retry: NextBackOff answers Stop (MaxElapsedTime is not 0 and the
\* elapsed time is over it); Retry returns the operation's error and do
\* returns it
BackOffStop == /\ pc = "next"
               /\ f.backoff.MaxElapsedTime # 0
               /\ pc' = "done"
               /\ ret' = [res |-> NilRes, err |-> err]
               /\ delay' = 0
               /\ UNCHANGED <<f, err, sends, retry0, log, g>>

\* backoff.Retry: NextBackOff answers a delay, which advances the policy,
\* and Retry sleeps it
Sleep == /\ pc = "next"
         /\ delay' \in Delays(f.backoff)
         /\ f' = [f EXCEPT !.backoff = NextBackOffOf(f.backoff)]
         /\ log' = Record(log, Entry("sleep", 0, Exchanges(log), f.retry,
                                     f.retry, FALSE))
         /\ pc' = "op"
         /\ UNCHANGED <<err, ret, sends, retry0, g>>

\* the sleeps of one Send, bounded
BackOffSleep == Sleeps(log) < MaxSleeps /\ Sleep

Next == \/ Url \/ Method \/ Json \/ Body \/ Retry
        \/ Send \/ DoFirst \/ Operation \/ BackOffStop \/ BackOffSleep

Spec == Init /\ [][Next]_vars

\* ---------------------------------------------------------------- claims

Done == pc = "done"

\* a Send is running or has just returned: the history is that Send's
InSend == pc # "ready"

\* the current Send is the first Send on the request object
Fresh == sends = 1

Is5xx(e) == e.kind = "resp" /\ e.status >= 500 /\ e.status <= 599

\* the response and the error the exchange of log entry e produced
ResponseOf(e) == Response(e.status, sends, e.n)
ErrorOf(e) == TransportErr(sends)

\* every doReq call so far asked the transport and got a 5xx
Always5xx == \A i \in 1..Len(log) : log[i].kind # "sleep" => Is5xx(log[i])

\* Send returned because NextBackOff answered Stop: the last doReq failed
Stopped == Done /\ Len(log) > 0 /\ log[Len(log)].failed

\* entry i was the last step of the Send, and the Send returned r
ReturnedAt(i, r) == i = Len(log) /\ Done /\ ret = r

\* C1: a fresh request with budget N >= 1 whose every attempt is answered
\* 5xx, the backoff never answering Stop: when Send returns it has made
\* exactly N+1 exchanges and f.retry is 0.
C1_AllRetriesSpent ==
    (Done /\ Fresh /\ retry0 >= 1 /\ Always5xx /\ ~Stopped)
        => (Exchanges(log) = retry0 + 1 /\ f.retry = 0)

C1_Witness ==
    /\ Done /\ Fresh /\ retry0 = MaxRetry /\ Always5xx /\ ~Stopped
    /\ Exchanges(log) = MaxRetry + 1 /\ f.retry = 0

\* C2: on a fresh request, an attempt answered 5xx while the budget is 0 is
\* the last step of the Send, which returns that very response and a nil
\* error, whatever came before it in the Send.
C2_Exhausted5xxIsResponse ==
    Fresh => \A i \in 1..Len(log) :
        (Is5xx(log[i]) /\ log[i].before = 0)
            => ReturnedAt(i, [res |-> ResponseOf(log[i]), err |-> NilErr])

C2_Witness ==
    /\ Fresh /\ Done /\ retry0 = MaxRetry /\ Len(log) > MaxRetry
    /\ Is5xx(log[Len(log)]) /\ log[Len(log)].before = 0
    /\ \E i \in 1..Len(log) - 1 : Is5xx(log[i]) /\ log[i].status # log[Len(log)].status
    /\ ret.res = ResponseOf(log[Len(log)])

\* C3: an attempt that fails in the transport while the budget is > 0
\* takes one from the budget and is followed by a further attempt: the Send
\* does not return on it.
C3_TransportErrorRetried ==
    \A i \in 1..Len(log) :
        (log[i].kind = "err" /\ log[i].before > 0)
            => (log[i].after = log[i].before - 1 /\ ~(i = Len(log) /\ Done))

\* C4: an attempt that fails in the transport while the budget is 0 is the
\* last step of the Send, which returns that very error and a nil response.
C4_TransportErrorReturned ==
    \A i \in 1..Len(log) :
        (log[i].kind = "err" /\ log[i].before = 0)
            => ReturnedAt(i, [res |-> NilRes, err |-> ErrorOf(log[i])])

C4_Witness ==
    /\ Done /\ sends = 2 /\ f.res # NilRes /\ f.res.send = 1
    /\ log[Len(log)].kind = "err" /\ log[Len(log)].before = 0
    /\ ret = [res |-> NilRes, err |-> TransportErr(2)]

\* C5: a Send called with budget 0 whose first doReq reaches the transport
\* makes that one exchange and returns: backoff.Retry is not entered, nothing
\* is slept, and a transport error is what Send returns.
C5_BudgetZeroOneAttempt ==
    (retry0 = 0 /\ Len(log) > 0 /\ IsExchange(log[1]))
        => /\ Done
           /\ Len(log) = 1
           /\ log[1].kind = "err" => ret = [res |-> NilRes, err |-> ErrorOf(log[1])]

C5_Witness ==
    /\ retry0 = 0 /\ Done /\ Len(log) = 1 /\ Is5xx(log[1])
    /\ ret.res = ResponseOf(log[1])
\* C6: a response outside [500,599] is never retried, whatever the budget:
\* the attempt it answers is the last step of the Send, which returns that
\* response and a nil error, and the attempt leaves the budget as it was.
C6_Non5xxReturned ==
    \A i \in 1..Len(log) :
        (log[i].kind = "resp" /\ ~Is5xx(log[i]))
            => /\ ReturnedAt(i, [res |-> ResponseOf(log[i]), err |-> NilErr])
               /\ log[i].after = log[i].before

\* C7: a configuration error (json.Marshal or http.NewRequest failing in
\* newRequest) is never retried: the first failed materialization is the
\* only step of the Send, which returns that error without entering
\* backoff.Retry.
C7_ConfigErrorNotRetried ==
    \A i \in 1..Len(log) :
        log[i].kind = "config"
            => (i = 1 /\ ReturnedAt(1, [res |-> NilRes, err |-> newRequest(f).err]))

\* C8: NextBackOff answering Stop after an attempt answered 5xx, with budget
\* still left, ends the Send: it returns a nil response and the error of that
\* attempt, which is no transport error, and the budget is still above 0.
C8_BackOffStopReturnsError ==
    (Stopped /\ Is5xx(log[Len(log)]) /\ log[Len(log)].after > 0)
        => /\ ret.res = NilRes
           /\ ret.err = ServerError
           /\ ret.err # NilErr /\ ret.err.type # "transport"
           /\ f.retry = log[Len(log)].after

C8_Witness ==
    /\ Stopped /\ Always5xx /\ sends = 2 /\ f.res # NilRes
    /\ retry0 = MaxRetry /\ f.retry > 0 /\ Exchanges(log) = 2
    /\ ret = [res |-> NilRes, err |-> ServerError]

\* an attempt that ends in a retryable failure: a transport error or a 5xx
\* answer while budget is left
RetryableFailure(e) == (e.kind = "err" \/ Is5xx(e)) /\ e.before > 0

\* C9: in a Send called with budget >= 0 the counter is never negative and
\* never grows, every attempt that ends in a retryable failure takes exactly
\* one from it, and every other attempt leaves it as it was.
C9_BudgetAccounting ==
    (InSend /\ retry0 >= 0)
        => /\ f.retry >= 0
           /\ f.retry <= retry0
           /\ \A i \in 1..Len(log) :
                 IsExchange(log[i]) =>
                    IF RetryableFailure(log[i])
                    THEN log[i].after = log[i].before - 1
                    ELSE log[i].after = log[i].before

\* C10: every return of Send yields exactly one of a response and an error:
\* the response is non-nil exactly when the error is nil.
C10_ResponseXorError ==
    Done => ((ret.res # NilRes) <=> (ret.err = NilErr))

C10_Witness ==
    /\ Done /\ sends = 2 /\ f.res # NilRes /\ f.err # NilErr
    /\ f.res.send = 1 /\ f.err.send = 2
    /\ ret = [res |-> NilRes, err |-> f.err]
\* what a Send returns when only its own attempts decide it: the outcome of
\* its last doReq (a response, a transport error, or the error doReq
\* returned when NextBackOff answered Stop after it)
OwnResult(e) ==
    CASE e.kind = "err" -> [res |-> NilRes, err |-> ErrorOf(e)]
      [] e.kind = "resp" /\ ~e.failed -> [res |-> ResponseOf(e), err |-> NilErr]
      [] e.kind = "resp" /\ e.failed -> [res |-> NilRes, err |-> ServerError]
      [] e.kind = "config" -> [res |-> NilRes, err |-> newRequest(f).err]

\* C11: what a Send returns is decided by the attempts of that Send alone,
\* not by the response or error an earlier Send on the same request left
\* behind (a second Send whose only attempt is answered 200 returns that 200
\* and a nil error, also after a first Send that ended in a transport error).
C11_ResultFromOwnAttempts ==
    (Done /\ Len(log) > 0 /\ log[Len(log)].kind # "sleep")
        => ret = OwnResult(log[Len(log)])
\* the full bytes of the body a request is configured with: the
\* serialization of the structured payload, or all the bytes of the raw reader
ConfiguredBody(h) == IF h.jsonIsSet THEN Marshal(h.json).bytes
                     ELSE IF h.body # NilBody THEN h.body.data
                     ELSE <<>>

\* exactly one of Json and Body was called on the request
OneBody(h) == h.jsonIsSet # (h.body # NilBody)

\* C12: every attempt of a Send, each retry after a 5xx included, hands the
\* transport the full bytes of the body (raw) or its serialization
\* (structured): no attempt is sent a truncated or empty body.
C12_EveryAttemptFullBody ==
    (InSend /\ Fresh /\ OneBody(f))
        => \A i \in 1..Len(log) :
              IsExchange(log[i]) => log[i].req.body = ConfiguredBody(f)
\* the step is a call of Body / of Json
BodyCalled == Idle /\ pc' = "ready" /\ \E b \in Bodies : f' = BodyOf(f, b)
JsonCalled == Idle /\ pc' = "ready" /\ \E j \in JsonVals : f' = JsonOf(f, j)

\* the request materializes, and its body is the bytes left in the raw
\* reader / the serialization of the structured payload
SendsRaw(h) == newRequest(h).err = NilErr
               => newRequest(h).req.body = Remaining(h.body)
SendsJson(h) == newRequest(h).err = NilErr
                => newRequest(h).req.body = Marshal(h.json).bytes

\* C13 as stated: after any sequence of Body and Json calls the body that is
\* sent is the one of the last setter called: the structured payload after
\* a Json call, the raw body after a Body call.
C13_LastSetterWins ==
    [][(JsonCalled => SendsJson(f')) /\ (BodyCalled => SendsRaw(f'))]_vars

\* C13 amended: exactly one representation is sent, and Json wins whatever
\* the order: the structured payload once Json has been called (also when
\* Body is called after it), the raw body only as long as Json never was.
C13_JsonWinsOverBody ==
    [][/\ JsonCalled => SendsJson(f')
       /\ BodyCalled => IF f.jsonIsSet THEN SendsJson(f') ELSE SendsRaw(f')]_vars

C13_Witness ==
    /\ Done /\ f.jsonIsSet /\ f.body # NilBody /\ f.body.pos = 0
    /\ Len(log) > 0 /\ IsExchange(log[1])
    /\ log[1].req.body = Marshal(f.json).bytes
    /\ log[1].req.body # f.body.data
\* C15: between any two consecutive transport attempts of one Send the
\* engine sleeps a backoff delay: no retry, the first retry after the
\* initial attempt included, is issued without a sleep before it.
C15_SleepBeforeEveryRetry ==
    \A i, j \in 1..Len(log) :
        (i < j /\ IsExchange(log[i]) /\ IsExchange(log[j]))
            => \E k \in i + 1..j - 1 : log[k].kind = "sleep"

\* C15, the attempt index: inside backoff.Retry the index the next delay is
\* computed from is the number of sleeps completed in this Send (it starts
\* at 0 and grows by one per sleep).
C15_IndexCountsSleeps ==
    pc \in {"op", "next"} => f.backoff.index = Sleeps(log)

\* ---------------------------------------------------------------- builder

\* The builder specification: the shorthands, Method with every method
\* value, SetHeader, Json and Body configure a request that was given a url
\* and a method, and one Send runs on it.

\* method values given to Method(): those of the shorthands, the empty
\* string, and one that is no token
ShorthandMethods == {"GET", "POST", "PUT", "PATCH", "DELETE"}
AllMethods == ShorthandMethods \cup {"", BadMethod}

\* keys and values given to SetHeader()
HeaderKeys == {"Content-Type", "X-A"}
HeaderVals == {"text/plain", "application/json"}

\* the shorthands: f.Url(url).Method(M)
GetOf(h, u) == MethodOf(UrlOf(h, u), "GET")
PostOf(h, u) == MethodOf(UrlOf(h, u), "POST")
PutOf(h, u) == MethodOf(UrlOf(h, u), "PUT")
PatchOf(h, u) == MethodOf(UrlOf(h, u), "PATCH")
DeleteOf(h, u) == MethodOf(UrlOf(h, u), "DELETE")

Get == \E u \in Urls : Set(GetOf(f, u))
Post == \E u \in Urls : Set(PostOf(f, u))
Put == \E u \in Urls : Set(PutOf(f, u))
Patch == \E u \in Urls : Set(PatchOf(f, u))
Delete == \E u \in Urls : Set(DeleteOf(f, u))
MethodAny == \E m \in AllMethods : Set(MethodOf(f, m))
SetHeader == \E k \in HeaderKeys, v \in HeaderVals : Set(SetHeaderOf(f, k, v))
RetryOnce == \E r \in 0..1 : Set(RetryOf(f, r))

\* the one Send of the builder specification
SendOnce == sends = 0 /\ Send

\* New().Url(u).Method(m)
InitBuild == /\ \E u \in Urls, m \in AllMethods : f = MethodOf(UrlOf(New, u), m)
             /\ pc = "ready"
             /\ err = NilErr
             /\ ret = NoResult
             /\ sends = 0
             /\ retry0 = 0
             /\ log = <<>>
             /\ delay = 0
             /\ g = NoGoroutines

\* the setters come before the Send
Building == sends = 0

NextBuild == \/ Building /\ Get
             \/ Building /\ Post
             \/ Building /\ Put
             \/ Building /\ Patch
             \/ Building /\ Delete
             \/ Building /\ MethodAny
             \/ Building /\ SetHeader
             \/ Building /\ Json
             \/ Building /\ Body
             \/ Building /\ RetryOnce
             \/ SendOnce \/ DoFirst \/ Operation \/ BackOffStop \/ BackOffSleep

SpecBuild == InitBuild /\ [][NextBuild]_vars
\* C14 as stated: for every method M set through Method or a shorthand,
\* every attempt is built with method M and the url given, so that the
\* response of a successful Send reports request method M.
C14_MethodRoundTrip ==
    InSend => \A i \in 1..Len(log) :
        IsExchange(log[i])
            => (log[i].req.method = f.method /\ log[i].req.url = f.url)

\* C14 amended: the same for every non-empty M; an empty M is sent as GET.
C14_MethodRoundTripOrGet ==
    InSend => \A i \in 1..Len(log) :
        IsExchange(log[i])
            => /\ log[i].req.method = IF f.method = "" THEN "GET" ELSE f.method
               /\ log[i].req.url = f.url

C14_Witness ==
    /\ Done /\ f.method = "PATCH" /\ f.jsonIsSet /\ Len(log) = 2
    /\ log[2].kind = "resp" /\ log[2].status = 200
    /\ log[2].req.method = "PATCH" /\ log[2].req.url = GoodUrl
    /\ ret.res = ResponseOf(log[2])

\* C17: every attempt of a Send, retries included, carries every header
\* configured on the request, each key with the value last set for it; after
\* Json every attempt carries content-type application/json unless the key
\* is set again.
C17_EveryHeaderSent ==
    InSend => \A i \in 1..Len(log) :
        IsExchange(log[i])
            => \A k \in DOMAIN f.header :
                  /\ CanonicalKey(k) \in DOMAIN log[i].req.header
                  /\ log[i].req.header[CanonicalKey(k)] = f.header[k]
\* ---------------------------------------------------------------- backoff

\* The policy specification: the policy setters configure f.backoff, Reset
\* starts a retry loop and NextBackOff produces its delays.

\* values given to the policy setters (durations in units of 250 ms,
\* factors in tenths)
Intervals == {1, 2, 8}
MaxIntervals == {4, 240}
Multipliers == {5, 10, 15, 20}
Factors == {0, 5, 10}
ElapsedTimes == {0, 3600}

InitialIntervalOf(h, t) == [h EXCEPT !.backoff.InitialInterval = t]
RandomizationFactorOf(h, rf) == [h EXCEPT !.backoff.RandomizationFactor = rf]
MultiplierOf(h, m) == [h EXCEPT !.backoff.Multiplier = m]
MaxIntervalOf(h, mi) == [h EXCEPT !.backoff.MaxInterval = mi]
MaxElapsedTimeOf(h, me) == [h EXCEPT !.backoff.MaxElapsedTime = me]

\* the policy is configured before the retry loop asks for delays
Configuring == f.backoff.index = 0 /\ delay = 0

InitialInterval == Configuring /\ \E t \in Intervals : Set(InitialIntervalOf(f, t))
RandomizationFactor ==
    Configuring /\ \E rf \in Factors : Set(RandomizationFactorOf(f, rf))
Multiplier == Configuring /\ \E m \in Multipliers : Set(MultiplierOf(f, m))
MaxInterval == Configuring /\ \E mi \in MaxIntervals : Set(MaxIntervalOf(f, mi))
MaxElapsedTime ==
    Configuring /\ \E me \in ElapsedTimes : Set(MaxElapsedTimeOf(f, me))

\* backoff.Retry starts with b.Reset()
Reset == /\ pc = "ready"
         /\ f.backoff.index > 0
         /\ f' = [f EXCEPT !.backoff = ResetOf(f.backoff)]
         /\ delay' = 0
         /\ UNCHANGED <<pc, err, ret, sends, retry0, log, g>>

\* NextBackOff answers a delay and the sleep completes (step 3: the
\* attempt index grows by one)
NextBackOff == /\ pc = "ready"
               /\ f.backoff.index < MaxIndex
               /\ delay' \in Delays(f.backoff)
               /\ f' = [f EXCEPT !.backoff = NextBackOffOf(f.backoff)]
               /\ UNCHANGED <<pc, err, ret, sends, retry0, log, g>>

NextPolicy == \/ InitialInterval \/ RandomizationFactor \/ Multiplier
              \/ MaxInterval \/ MaxElapsedTime \/ Reset \/ NextBackOff

SpecPolicy == Init /\ [][NextPolicy]_vars

\* a delay has been produced
Delayed == f.backoff.index > 0

\* the policy as it was when the last delay was produced
Before == [f.backoff EXCEPT !.index = f.backoff.index - 1]

\* C16 as stated: every delay the policy produces is at most maxInterval.
C16_DelayAtMostMaxInterval ==
    Delayed => delay <= f.backoff.MaxInterval

\* C16 amended: the base delay is at most maxInterval, and the delay
\* produced lies within base*(1 -+ randomizationFactor), so it is at most
\* maxInterval*(1 + randomizationFactor).
C16_DelayWithinSpread ==
    Delayed =>
        /\ Base(Before) <= f.backoff.MaxInterval
        /\ delay >= Base(Before) - Delta(Before, Base(Before))
        /\ delay <= Base(Before) + Delta(Before, Base(Before))
        /\ delay <= f.backoff.MaxInterval
                             + Delta(Before, f.backoff.MaxInterval)

C16_Witness ==
    /\ f.backoff.index = MaxIndex
    /\ f.backoff.InitialInterval < f.backoff.MaxInterval
    /\ Base(Before) = f.backoff.MaxInterval
    /\ delay > f.backoff.MaxInterval
\* ---------------------------------------------------------------- termination

\* The termination specification: one Send of a configured request, with
\* no bound on the sleeps of its retry loop (the history keeps its first
\* MaxLog entries).  A step that is enabled is taken; a policy with a
\* MaxElapsedTime answers Stop once the sleeps have used it up.

NextLive == \/ Building /\ Url
            \/ Building /\ Method
            \/ Building /\ Retry
            \/ Building /\ MaxElapsedTime
            \/ SendOnce \/ DoFirst \/ Operation \/ BackOffStop \/ Sleep

SpecLive == /\ Init
            /\ [][NextLive]_vars
            /\ WF_vars(DoFirst)
            /\ WF_vars(Operation)
            /\ WF_vars(Sleep)
            /\ SF_vars(BackOffStop)

\* the budget the Send started with is B >= 0
BudgetAtStart == InSend /\ retry0 >= 0

\* C18 as stated, termination: a Send that has started returns.
C18_SendTerminates == (pc = "do") ~> Done

\* C18, the number of exchanges: a Send with budget B >= 0 performs at most
\* B+1 exchanges, one at a time (each doReq call performs at most one).
C18_AtMostBudgetPlusOne ==
    BudgetAtStart =>
        /\ Exchanges(log) <= retry0 + 1
        /\ \A i \in 1..Len(log) :
             IsExchange(log[i]) =>
                log[i].n = Cardinality({j \in 1..i : IsExchange(log[j])})

\* C18 where the request can be materialized: the Send returns.
C18_WellFormedTerminates ==
    (pc = "do" /\ newRequest(f).err = NilErr) ~> Done

\* C18 with a policy that answers Stop: the Send returns.
C18_StoppingTerminates ==
    (pc = "do" /\ f.backoff.MaxElapsedTime # 0) ~> Done
\* ---------------------------------------------------------------- concurrency

\* The concurrent specification: two goroutines call Send on one request.
\* Each runs do and doReq on the shared fields, one access to a shared
\* field (or one library call on one) per step: doReq writes f.req, waits
\* in c.Do, writes f.err or tests f.retry (line 183), f.retry-- of line
\* 184 reads f.retry and then writes it, and line 188 writes f.res;
\* backoff.Retry calls Reset and NextBackOff on the one policy f.backoff;
\* do tests f.err and reads the f.err or the f.res it returns.

Goroutines == {1, 2}

\* a goroutine's locals
\*   pc: "idle" (Send not called), "build" (in doReq, before newRequest),
\*       "do" (before c.Do), "check" (c.Do returned), "load" and "store"
\*       (the two halves of f.retry--), "keep" (before f.res = res),
\*       "reset" (do got an error, before backoff.Retry), "next" (in
\*       backoff.Retry, before NextBackOff), "test" (doReq returned nil,
\*       before the test of f.err in do), "readerr" and "readres" (before
\*       do reads the f.err / the f.res it returns), "return" (Send
\*       returned)
\*   res, err: what c.Do returned to it last
\*   fail: the error doReq returned to it last
\*   ret: what its Send returned
\*   tmp: the value of f.retry that f.retry-- loaded
\*   spent: history, the retries it has spent
\*   retrying: whether it is inside backoff.Retry
Local(p, res, e, tmp, spent, retrying) ==
    [pc |-> p, res |-> res, err |-> e, tmp |-> tmp, spent |-> spent,
     retrying |-> retrying, fail |-> NilErr, ret |-> NoResult]

\* New().Post(GoodUrl).Retry(b), and no goroutine has called Send
InitConc == /\ \E b \in 0..MaxRetry :
                 /\ f = RetryOf(PostOf(New, GoodUrl), b)
                 /\ retry0 = b
            /\ pc = "ready"
            /\ err = NilErr
            /\ ret = NoResult
            /\ sends = 0
            /\ log = <<>>
            /\ delay = 0
            /\ g = [i \in Goroutines |->
                      Local("idle", NilRes, NilErr, 0, 0, FALSE)]

\* where a goroutine goes when doReq returned an error: the first doReq of
\* do enters backoff.Retry, a later one makes Retry ask NextBackOff
Failed(i) == IF g[i].retrying THEN "next" ELSE "reset"

\* go f.Send(): do calls doReq
GoSend(i) == /\ g[i].pc = "idle"
             /\ g' = [g EXCEPT ![i].pc = "build"]
             /\ UNCHANGED <<f, pc, err, ret, sends, retry0, log, delay>>

\* doReq, lines 169-175: f.req is built and given its headers
GoBuild(i) ==
    /\ g[i].pc = "build"
    /\ \E w \in RangeOrders(f.header) :
         LET nr == newRequest(f)
         IN  IF nr.err # NilErr
             THEN /\ f' = [f EXCEPT !.req = nr.req]
                  /\ g' = [g EXCEPT ![i].pc = Failed(i), ![i].fail = nr.err]
             ELSE /\ f' = [f EXCEPT !.req = SetHeaders(nr.req, f.header, w)]
                  /\ g' = [g EXCEPT ![i].pc = "do"]
    /\ UNCHANGED <<pc, err, ret, sends, retry0, log, delay>>

\* doReq, line 176: c.Do(f.req), the exchange of the request f.req holds now
GoDo(i) ==
    /\ g[i].pc = "do"
    /\ \E o \in OutcomesFor(f.req.url) :
         LET d == Do(Client(o, i, 0, <<>>), f.req)
         IN  g' = [g EXCEPT ![i].pc = "check", ![i].res = d.res,
                            ![i].err = d.err]
    /\ UNCHANGED <<f, pc, err, ret, sends, retry0, log, delay>>

\* doReq, lines 179-183: the transport-error branch (f.err = err, doReq
\* returns nil) and the test of line 183, which reads f.retry
GoCheck(i) ==
    /\ g[i].pc = "check"
    /\ IF g[i].err # NilErr
       THEN /\ g' = [g EXCEPT ![i].pc = "test"]
            /\ f' = [f EXCEPT !.err = g[i].err]
       ELSE IF Retryable(g[i].res, f.retry)
       THEN /\ g' = [g EXCEPT ![i].pc = "load"]
            /\ f' = f
       ELSE /\ g' = [g EXCEPT ![i].pc = "keep"]
            /\ f' = f
    /\ UNCHANGED <<pc, err, ret, sends, retry0, log, delay>>

\* doReq, lines 187-190: f.res = res, doReq returns nil
GoKeep(i) ==
    /\ g[i].pc = "keep"
    /\ f' = [f EXCEPT !.res = IF g[i].res # NilRes THEN g[i].res ELSE f.res]
    /\ g' = [g EXCEPT ![i].pc = "test"]
    /\ UNCHANGED <<pc, err, ret, sends, retry0, log, delay>>

\* do, line 209: the test of f.err
GoTest(i) ==
    /\ g[i].pc = "test"
    /\ g' = [g EXCEPT ![i].pc = IF f.err # NilErr THEN "readerr" ELSE "readres"]
    /\ UNCHANGED <<f, pc, err, ret, sends, retry0, log, delay>>

\* do, line 210: return nil, f.err
GoReadErr(i) ==
    /\ g[i].pc = "readerr"
    /\ g' = [g EXCEPT ![i].pc = "return",
                      ![i].ret = [res |-> NilRes, err |-> f.err]]
    /\ UNCHANGED <<f, pc, err, ret, sends, retry0, log, delay>>

\* do, line 212: return f.res, err (Retry's nil)
GoReadRes(i) ==
    /\ g[i].pc = "readres"
    /\ g' = [g EXCEPT ![i].pc = "return",
                      ![i].ret = [res |-> f.res, err |-> NilErr]]
    /\ UNCHANGED <<f, pc, err, ret, sends, retry0, log, delay>>

\* f.retry--: the read
GoLoad(i) == /\ g[i].pc = "load"
             /\ g' = [g EXCEPT ![i].pc = "store", ![i].tmp = f.retry]
             /\ UNCHANGED <<f, pc, err, ret, sends, retry0, log, delay>>

\* f.retry--: the write; doReq returns "Server Error"
GoStore(i) ==
    /\ g[i].pc = "store"
    /\ f' = [f EXCEPT !.retry = g[i].tmp - 1]
    /\ g' = [g EXCEPT ![i].pc = Failed(i), ![i].spent = g[i].spent + 1,
                      ![i].fail = ServerError]
    /\ UNCHANGED <<pc, err, ret, sends, retry0, log, delay>>

\* do enters backoff.Retry, which resets the policy and runs the operation
GoReset(i) ==
    /\ g[i].pc = "reset"
    /\ f' = [f EXCEPT !.backoff = ResetOf(f.backoff)]
    /\ g' = [g EXCEPT ![i].pc = "build", ![i].retrying = TRUE]
    /\ UNCHANGED <<pc, err, ret, sends, retry0, log, delay>>

\* NextBackOff answers Stop: Retry returns the operation's error and do
\* returns it
GoStop(i) == /\ g[i].pc = "next"
             /\ f.backoff.MaxElapsedTime # 0
             /\ g' = [g EXCEPT ![i].pc = "return",
                               ![i].ret = [res |-> NilRes, err |-> g[i].fail]]
             /\ UNCHANGED <<f, pc, err, ret, sends, retry0, log, delay>>

\* NextBackOff answers a delay, which advances the policy; Retry sleeps it
\* (a local nothing reads afterwards) and runs the operation
GoSleep(i) ==
    /\ g[i].pc = "next"
    /\ Delays(f.backoff) # {}
    /\ g' = [g EXCEPT ![i].pc = "build"]
    /\ f' = [f EXCEPT !.backoff = NextBackOffOf(f.backoff)]
    /\ UNCHANGED <<pc, err, ret, sends, retry0, log, delay>>

NextConc == \E i \in Goroutines :
               \/ GoSend(i) \/ GoBuild(i) \/ GoDo(i) \/ GoCheck(i)
               \/ GoKeep(i) \/ GoLoad(i) \/ GoStore(i) \/ GoReset(i)
               \/ GoStop(i) \/ GoSleep(i) \/ GoTest(i) \/ GoReadErr(i)
               \/ GoReadRes(i)

SpecConc == InitConc /\ [][NextConc]_vars

\* the retries the goroutines have spent together
SpentBy(S) == IF 1 \in S /\ 2 \in S THEN g[1].spent + g[2].spent
              ELSE IF 1 \in S THEN g[1].spent
              ELSE IF 2 \in S THEN g[2].spent
              ELSE 0

\* C19 as stated: with two concurrent Sends on one request the shared
\* retry counter stays >= 0 and the retries spent together are at most the
\* initial budget.
C19_ConcurrentWithinBudget ==
    /\ f.retry >= 0
    /\ SpentBy(Goroutines) <= retry0

\* C19 for one goroutine alone: while the other has not called Send, the
\* counter is the budget less the retries spent, and it stays >= 0.
C19_AloneWithinBudget ==
    \A i \in Goroutines :
        (\A j \in Goroutines \ {i} : g[j].pc = "idle") =>
            /\ f.retry >= 0
            /\ f.retry + g[i].spent = retry0

====
